---- MODULE Spec2Model ----
(***************************************************************************)
(* Master side of the Wazuh cluster protocol                               *)
(* (framework/wazuh/cluster/master.py): the per-worker handler             *)
(* MasterHandler with its three synchronisation lanes, the distributed-API *)
(* request registry, and the file applier process_files_from_worker.       *)
(*                                                                         *)
(* and the Master's integrity scanner file_status_update.                  *)
(*                                                                         *)
(* The specifications share the variables:                                 *)
(*   Spec      - worker sessions, lane commands and lane tasks             *)
(*   SpecHello - one session: hello and the lane commands                  *)
(*   SpecDapi  - execute / process_dapi_res on pending_api_requests        *)
(*   SpecApply - process_files_from_worker / update_file                   *)
(*   SpecScan  - Master.file_status_update (FairScan: with fairness)       *)
(***************************************************************************)
EXTENDS Naturals, Integers, Sequences, FiniteSets, TLC

(***************************************************************************)
(* Bounds of the model.                                                    *)
(***************************************************************************)
\* receive tasks ever created by the master (over all sessions)
MaxTasks == 2

Sessions == {"w1", "w2"}
\* Integrity, AgentInfo, ExtraValid  (sync_i_*, sync_a_*, sync_e_*)
Lanes == {"I", "A", "E"}
\* paths a diff result may name
KoPaths == {"p"}

VARIABLES
    \* ---- MasterHandler (one per session) ----
    free,        \* free[s][l]: sync_integrity_free / sync_agent_info_free / sync_extra_valid_free
    connected,   \* connected[s]: the transport of session s is up
    tasks,       \* every receive task created so far; a task's name is its index
    permReply,   \* the last get_permission: session, command tag, the payload
                 \* returned with b'ok', and a bit that flips at every request
    \* ---- Master.pending_api_requests and the callers of execute ----
    pending,     \* pending_api_requests: request id -> [owner, response]; owner is
                 \* the caller whose Event object the entry holds
    callers,     \* the calls of execute made so far, each with its Event
    dapiRes,     \* what the last process_dapi_res did: resolved an entry ("ok"),
                 \* forwarded to a local client ("fwd") or raised ("3032"); or
                 \* what the last dapi_err did: forwarded ("err_fwd") or raised
                 \* ("KeyError")
    \* ---- process_files_from_worker ----
    apc,         \* where the applier is: "idle" (not called yet), "loop" (between
                 \* two update_file calls), "unmerge" (inside the loop over a
                 \* bundle's sub-files), "returned" or "raised"
    fs,          \* the master's files: path -> [exists, mtime, data]
    roster,      \* the agents Agent.get_agents_overview knows
    snapshot,    \* agent_names / agent_ids of the running batch
    nErrors,     \* n_errors: tag -> cluster_item_key -> count
    totals,      \* the numeric entries of sync_agent_info_status and
                 \* sync_extra_valid_status: 'total_agentinfo' and
                 \* 'total_agentgroups' of __init__, 'total_agent_info' and
                 \* 'total_extra_valid' of update_file; with them, applied: the
                 \* sub-files the running batch has written, per kind of bundle
    lock,        \* lock file base name -> "free", "held" or "leaked"
    cur,         \* the descriptor update_file is working on
    lastOp,      \* what the last step of the applier did, and to which target
    filesLeft,   \* update_file calls left
    subsLeft,    \* sub-files the bundle being unmerged may still yield
    trail,       \* the sub-files the current bundle has yielded so far: base
                 \* name, and whether the target was there with a later mtime
                 \* (in whole seconds) than the embedded time
    faulted,     \* a call made by the batch has raised (agent overview, lock,
                 \* strptime, file operation, unmerge, rmtree)
    \* ---- hello ----
    hs,          \* hs[s]: what hello left on the handler of session s
    \* ---- Master.file_status_update ----
    masterFiles,        \* the master's files: path -> checksum
    integrity_control,  \* Master.integrity_control
    scanPc,             \* "calc" (about to compute) or "sleep" (in asyncio.sleep)
    scanLast,           \* outcome of the last computation: "", "ok" or "failed"
    lastWhole           \* the table the last get_files_status that returned has
                        \* returned ({} before the first)

laneVars == <<free, connected, tasks, permReply>>
dapiVars == <<pending, callers, dapiRes>>
applyVars == <<apc, fs, roster, snapshot, nErrors, totals, lock, cur, lastOp, filesLeft,
               subsLeft, trail, faulted>>
helloVars == <<hs>>
scanVars == <<masterFiles, integrity_control, scanPc, scanLast, lastWhole>>
vars == <<laneVars, dapiVars, applyVars, helloVars, scanVars>>

(***************************************************************************)
(* Receive tasks (ReceiveIntegrityTask, ReceiveAgentInfoTask,              *)
(* ReceiveExtraValidTask) and the coroutine each one runs.                 *)
(***************************************************************************)
KoResults == [shared : SUBSET KoPaths, missing : SUBSET KoPaths,
              extra : SUBSET KoPaths, extra_valid : SUBSET KoPaths]

\* The task object made by setup_receive_file: its coroutine is parked on
\* received_file.wait(); task_name is the str the coroutine was called with.
\* table: the table the coroutine has passed to compare_files (line 384)
\* permitted: the lane was free at the setup, so a permission request sent right
\* before it was answered True.
\* koAny / koMaster: what the diff found (set when the archive is resolved).
\* sent: the messages sent to the worker; failedAt: the send that raised first;
\* notify: what became of send_request(b'sync_m_c_r') ("" = never called).
\* endRec: this cycle has written date_end_master.
NewTask(s, l, wasGranted) ==
    [sess |-> s, lane |-> l, pc |-> "wait", event |-> FALSE, filename |-> "",
     cancelReq |-> FALSE, tname |-> "str", archive |-> "none", resolved |-> FALSE,
     koAny |-> FALSE, koMaster |-> FALSE, sent |-> {}, failedAt |-> "", notify |-> "",
     outcome |-> "", endRec |-> FALSE, permitted |-> wasGranted, table |-> <<>>]

TaskIds == 1..Len(tasks)
\* the tasks still in sync_tasks: their done_callback has not run
Live(t) == tasks[t].pc # "done"
LiveTasks(s) == {t \in TaskIds : tasks[t].sess = s /\ Live(t)}
LaneTasks(s, l) == {t \in LiveTasks(s) : tasks[t].lane = l}

KoTotal(ko) ==
    Cardinality(ko.shared) + Cardinality(ko.missing)
        + Cardinality(ko.extra) + Cardinality(ko.extra_valid)
\* a test that looks at shared and missing only (what line 390 does not do)
NoSharedNoMissing(ko) == ko.shared \cup ko.missing = {}
\* line 390: the sum of the sizes of all four classes is zero
NoKoFiles(ko) == KoTotal(ko) = 0
\* line 398: the master files that go into the archive
MasterFilesPaths(ko) == ko.shared \cup ko.missing

\* a done_callback writing a flag that all the handlers share
DoneCallbackFreeShared(fr, s, l) == [o \in DOMAIN fr |-> [fr[o] EXCEPT ![l] = TRUE]]
\* a done_callback that leaves the flags as they are
DoneCallbackKeep(fr, s, l) == fr
\* done_callback of the three Receive*Task classes: the lane is marked free
DoneCallbackFree(fr, s, l) == [fr EXCEPT ![s][l] = TRUE]

\* ReceiveFileTask.done_callback (base class): the task object leaves
\* sync_tasks; what stays is the record of the cycle.
BaseDoneCallback(rec, outc, endRecorded) ==
    [rec EXCEPT !.pc = "done", !.outcome = outc, !.cancelReq = FALSE,
                !.event = FALSE, !.filename = "", !.endRec = endRecorded]

\* WazuhCommon.setup_receive_file: a task object is made and put in sync_tasks
SetupReceiveFile(s, l, wasGranted) == Append(tasks, NewTask(s, l, wasGranted))

\* WazuhCommon.end_receiving_file: the file name is stored, the event set
EndReceivingFile(t) == [tasks EXCEPT ![t].filename = "file", ![t].event = TRUE]

\* WazuhCommon.error_receiving_file: the failure is stored in place of the file
\* name and the event set, unless the worker names no task (0, 'None')
ErrorReceivingFile(t) ==
    IF t = 0 THEN tasks
    ELSE [tasks EXCEPT ![t].filename = "exc", ![t].event = TRUE]

\* The coroutine of task t has ended with outcome outc and its done_callback
\* has run.  endRecorded: the coroutine reached its last lines, which record
\* date_end_master and set the flag themselves.
Done(t, rec, outc, endRecorded) ==
    /\ tasks' = [tasks EXCEPT ![t] = BaseDoneCallback(rec, outc, endRecorded)]
    /\ free' = DoneCallbackFree(free, rec.sess, rec.lane)

\* a cycle end without the finally clause
NoUnlink(rec) == rec
\* finally: os.unlink(compressed_data)
Unlink(rec) == [rec EXCEPT !.archive = "deleted"]

\* task_name + b' ' + ... in the two except clauses: task_name is still the
\* str parameter unless send_request(b'sync_m_c') has returned its bytes reply
CanConcat(rec) == rec.tname = "bytes"

\* The except clauses of sync_integrity, entered from the send step `step`.
ExceptClause(t, rec, step) ==
    LET r1 == [rec EXCEPT !.failedAt = step, !.cancelReq = FALSE] IN
    IF CanConcat(r1)
    THEN /\ tasks' = [tasks EXCEPT ![t] = [r1 EXCEPT !.pc = "send_r"]]
         /\ UNCHANGED free
    ELSE \* TypeError raised inside the handler: finally runs, the task fails
         Done(t, Unlink(r1), "raised", FALSE)

\* a send returns, raises a WazuhException or raises another exception
SendResults == {"ok", "wazuh", "other"}
SendPcs == {"send_ok", "send_c", "send_file", "send_e", "send_r"}
TryPcs == {"send_c", "send_file", "send_e"}

(***************************************************************************)
(* sync_integrity / sync_agent_info / sync_extra_valid, one step per       *)
(* suspension point.                                                       *)
(***************************************************************************)
\* The wait on received_file has returned: the event was set.
\* a coroutine that takes whatever the task holds for a file name
NeverException(rec) == FALSE
\* lines 374-376 (322-324): isinstance(received_filename, Exception)
ReceivedException(rec) == rec.filename = "exc"

TaskResume(t) ==
    LET rec == tasks[t] IN
    /\ UNCHANGED <<dapiVars, applyVars, helloVars, scanVars, permReply>>
    /\ rec.pc = "wait" /\ rec.event /\ ~rec.cancelReq
    /\ UNCHANGED connected
    /\ IF ReceivedException(rec)
       THEN Done(t, rec, "raised", FALSE)
       ELSE \E res \in {"ok", "raise"} :
              IF res = "raise"
              THEN \* decompress_files, compare_files or the applier raised
                   Done(t, rec, "raised", FALSE)
              ELSE IF rec.lane = "I"
              THEN \E ko \in KoResults :
                     LET r1 == [rec EXCEPT !.resolved = TRUE,
                                           !.table = integrity_control,
                                           !.koAny = KoTotal(ko) > 0,
                                           !.koMaster = MasterFilesPaths(ko) # {}] IN
                     /\ tasks' = [tasks EXCEPT ![t] =
                            IF NoKoFiles(ko)
                            THEN [r1 EXCEPT !.pc = "send_ok"]
                            ELSE [r1 EXCEPT !.pc = "send_c", !.archive = "exists"]]
                     /\ UNCHANGED free
              ELSE \* sync_worker_files returned: the files were applied
                   Done(t, [rec EXCEPT !.resolved = TRUE], "returned", TRUE)

\* asyncio.wait_for(received_file.wait(), timeout=...) expired.
TaskTimeout(t) ==
    LET rec == tasks[t] IN
    /\ UNCHANGED <<dapiVars, applyVars, helloVars, scanVars, permReply>>
    /\ rec.pc = "wait" /\ ~rec.event /\ ~rec.cancelReq
    /\ UNCHANGED connected
    /\ Done(t, rec, "timeout", FALSE)

\* One of the awaited sends of sync_integrity completes with result r.
\* a KO path that sends the end-of-transfer right after the task id request
NextSendSkipsFile(pc) == "send_e"
\* lines 403-408: send_request(sync_m_c), then send_file, then
\* send_request(sync_m_c_e), each awaited before the next begins
NextSend(pc) == IF pc = "send_c" THEN "send_file" ELSE "send_e"

SendStep(t, r) ==
    LET rec == tasks[t] IN
    /\ UNCHANGED <<dapiVars, applyVars, helloVars, scanVars, permReply>>
    /\ rec.pc \in SendPcs /\ ~rec.cancelReq
    /\ UNCHANGED connected
    /\ CASE rec.pc = "send_ok" ->
              IF r = "ok"
              THEN Done(t, [rec EXCEPT !.sent = @ \cup {"sync_m_c_ok"}], "returned", TRUE)
              ELSE Done(t, [rec EXCEPT !.failedAt = "sync_m_c_ok"], "raised", FALSE)
         [] rec.pc = "send_c" ->
              IF r = "ok"
              THEN /\ tasks' = [tasks EXCEPT ![t] =
                          [rec EXCEPT !.sent = @ \cup {"sync_m_c"}, !.tname = "bytes",
                                      !.pc = NextSend("send_c")]]
                   /\ UNCHANGED free
              ELSE ExceptClause(t, rec, "sync_m_c")
         [] rec.pc = "send_file" ->
              IF r = "ok"
              THEN /\ tasks' = [tasks EXCEPT ![t] =
                          [rec EXCEPT !.sent = @ \cup {"file"}, !.pc = NextSend("send_file")]]
                   /\ UNCHANGED free
              ELSE ExceptClause(t, rec, "file")
         [] rec.pc = "send_e" ->
              IF r = "ok"
              THEN Done(t, Unlink([rec EXCEPT !.sent = @ \cup {"sync_m_c_e"}]),
                        "returned", TRUE)
              ELSE ExceptClause(t, rec, "sync_m_c_e")
         [] rec.pc = "send_r" ->
              IF r = "ok"
              THEN Done(t, Unlink([rec EXCEPT !.sent = @ \cup {"sync_m_c_r"},
                                              !.notify = "sent"]),
                        "returned", TRUE)
              ELSE \* the notification itself raised: finally runs, the task fails
                   Done(t, Unlink([rec EXCEPT !.notify = "failed"]), "raised", FALSE)

\* task.cancel() takes effect at the await the coroutine is parked on.  Inside
\* the try block CancelledError is caught by `except Exception` when it derives
\* from Exception (Python 3.7) and only passes the finally when it derives from
\* BaseException (Python 3.8 on): both are outcomes.
TaskCancel(t) ==
    LET rec == tasks[t] IN
    /\ UNCHANGED <<dapiVars, applyVars, helloVars, scanVars, permReply>>
    /\ Live(t) /\ rec.cancelReq
    /\ UNCHANGED connected
    /\ IF rec.pc \in TryPcs
       THEN \E caught \in BOOLEAN :
              IF caught
              THEN ExceptClause(t, rec, "cancel")
              ELSE Done(t, Unlink(rec), "cancelled", FALSE)
       ELSE IF rec.pc = "send_r"
       THEN Done(t, Unlink([rec EXCEPT !.notify = "failed"]), "cancelled", FALSE)
       ELSE Done(t, rec, "cancelled", FALSE)

(***************************************************************************)
(* process_request: the lane commands.                                     *)
(***************************************************************************)
\* the tag of a permission command: the three of process_request, or another
Tags == Lanes \cup {"x"}
\* a get_permission that refuses whatever the flag says
PermissionRefused(s, tag) == FALSE
\* lines 256-263: the flag of the lane the tag names, False for another tag
PermissionReply(s, tag) ==
    IF tag = "I" THEN free[s]["I"]
    ELSE IF tag = "E" THEN free[s]["E"]
    ELSE IF tag = "A" THEN free[s]["A"]
    ELSE FALSE
\* line 265: str(permission).encode()
StrEncode(b) == IF b THEN "True" ELSE "False"
NoPermReply == [sess |-> "", tag |-> "", payload |-> "", n |-> 0]
\* get_permission (sync_i_w_m_p, sync_e_w_m_p, sync_a_w_m_p)
GetPermission(s, tag) ==
    /\ connected[s]
    /\ UNCHANGED <<dapiVars, applyVars, helloVars, scanVars>>
    /\ permReply' = [sess |-> s, tag |-> tag,
                     payload |-> StrEncode(PermissionReply(s, tag)),
                     n |-> 1 - permReply.n]
    /\ UNCHANGED <<free, connected, tasks>>

\* a setup that marks every lane of the session busy
SetupFlagsSession(s, l) == [free EXCEPT ![s] = [k \in Lanes |-> FALSE]]
\* lines 269-278: the flag of the lane the command names is set to False
SetupFlags(s, l) == [free EXCEPT ![s][l] = FALSE]
\* lines 291-297: the flag of the lane the command names is set to True
ErrorFlags(s, l) == [free EXCEPT ![s][l] = TRUE]

\* setup_sync_integrity (sync_i_w_m, sync_e_w_m, sync_a_w_m)
SetupSync(s, l) ==
    /\ connected[s]
    /\ UNCHANGED <<dapiVars, applyVars, helloVars, scanVars, permReply>>
    /\ Len(tasks) < MaxTasks
    /\ free' = SetupFlags(s, l)
    /\ tasks' = SetupReceiveFile(s, l, PermissionReply(s, l))
    /\ UNCHANGED connected

\* end_receiving_integrity_checksums (sync_*_w_m_e): task name and file name
EndReceiving(s, t) ==
    /\ connected[s]
    /\ UNCHANGED <<dapiVars, applyVars, helloVars, scanVars, permReply>>
    /\ t \in LiveTasks(s)
    /\ tasks' = EndReceivingFile(t)
    /\ UNCHANGED <<free, connected>>

\* process_sync_error_from_worker (sync_*_w_m_r); t = 0 is the task name 'None'
SyncError(s, l, t) ==
    /\ connected[s]
    /\ UNCHANGED <<dapiVars, applyVars, helloVars, scanVars, permReply>>
    /\ t \in LiveTasks(s) \cup {0}
    /\ free' = ErrorFlags(s, l)
    /\ tasks' = ErrorReceivingFile(t)
    /\ UNCHANGED connected

\* a connection_lost that cancels the tasks of every session
CancelEverySession(s) ==
    [t \in TaskIds |-> IF Live(t) THEN [tasks[t] EXCEPT !.cancelReq = TRUE] ELSE tasks[t]]
\* lines 600-601: task.cancel() on every task in the session's sync_tasks
CancelSyncTasks(s) ==
    [t \in TaskIds |->
        IF t \in LiveTasks(s) THEN [tasks[t] EXCEPT !.cancelReq = TRUE] ELSE tasks[t]]

\* connection_lost: every task of sync_tasks is cancelled
ConnectionLost(s) ==
    /\ connected[s]
    /\ UNCHANGED <<dapiVars, applyVars, helloVars, scanVars, permReply>>
    /\ connected' = [connected EXCEPT ![s] = FALSE]
    /\ tasks' = CancelSyncTasks(s)
    /\ UNCHANGED free

InitLane ==
    /\ free = [s \in Sessions |-> [l \in Lanes |-> TRUE]]
    /\ connected = [s \in Sessions |-> TRUE]
    /\ tasks = <<>>
    /\ permReply = NoPermReply

(***************************************************************************)
(* execute and process_dapi_res: the distributed-API registry.             *)
(***************************************************************************)
\* calls of execute ever made
MaxCalls == 2
\* str(random.randint(0, 2**10 - 1)): two of the 1024 ids, so that ids collide
ReqIds == {"1", "2"}
\* names in local_server.clients; one of them reads like a request id
LocalClients == {"lc", "2"}
\* ids a dapi_res may carry: a request id, a local client, or neither
DeliveryIds == ReqIds \cup LocalClients \cup {"9"}
\* payloads of in_str[string_id]
Payloads == {"r1", "r2"}
\* command, whether the client named by dapi_forward is fw_all_nodes or a
\* connected worker, and wait_for_complete (read for dapi and dapi_forward only)
Calls == {[cmd |-> "dapi", known |-> TRUE, wfc |-> TRUE],
          [cmd |-> "dapi", known |-> TRUE, wfc |-> FALSE],
          [cmd |-> "dapi_forward", known |-> TRUE, wfc |-> FALSE],
          [cmd |-> "dapi_forward", known |-> FALSE, wfc |-> FALSE],
          [cmd |-> "other", known |-> TRUE, wfc |-> FALSE]}
\* n: alternates with every dapi_res processed
NoRes == [kind |-> "", id |-> "", payload |-> "", n |-> 0]

CallerIds == 1..Len(callers)

\* line 157: the entry of request_id is (re)placed: a new Event, Response ''
Register(id, c) == [i \in DOMAIN pending \cup {id} |->
                       IF i = id THEN [owner |-> c, response |-> ""] ELSE pending[i]]

\* lines 224-226: the response slot is written and the entry's Event is set
Resolve(id, payload) == [pending EXCEPT ![id].response = payload]

\* a process_dapi_res that forwards every id it has no entry for
DapiResKindNoError(id) ==
    IF id \in DOMAIN pending THEN "ok" ELSE "fwd"
\* a process_dapi_res that never forwards
DapiResKindNoForward(id) ==
    IF id \in DOMAIN pending THEN "ok" ELSE "3032"
\* lines 224-232: the branch process_dapi_res takes for req_id
DapiResKind(id) ==
    IF id \in DOMAIN pending THEN "ok"
    ELSE IF id \in LocalClients THEN "fwd"
    ELSE "3032"

\* execute has neither returned nor raised
Outstanding(c) == callers[c].pc \in {"sending", "waiting"}

\* execute up to its first await.  first: the payload of the first dapi_res
\* that set this call's Event ("" = none yet); arrived: a dapi_res carrying
\* this call's request id was processed while the call was outstanding.
Execute(id, call) ==
    /\ Len(callers) < MaxCalls
    /\ UNCHANGED <<laneVars, applyVars, helloVars, scanVars>>
    /\ pending' = Register(id, Len(callers) + 1)
    /\ callers' = Append(callers,
           [id |-> id, cmd |-> call.cmd, wfc |-> call.wfc, event |-> FALSE,
            first |-> "", result |-> "", arrived |-> FALSE,
            pc |-> IF call.cmd = "dapi_forward" /\ ~call.known
                   THEN "failed3022" ELSE "sending"])
    /\ UNCHANGED dapiRes

\* the send_request of execute has returned (ok) or raised
ExecuteSent(c, ok) ==
    /\ callers[c].pc = "sending"
    /\ UNCHANGED <<laneVars, applyVars, helloVars, scanVars>>
    /\ callers' = [callers EXCEPT ![c].pc =
           IF ~ok THEN "failed"
           ELSE IF callers[c].cmd \in {"dapi", "dapi_forward"} THEN "waiting"
           ELSE "returned"]
    /\ UNCHANGED <<pending, dapiRes>>

\* lines 175-176: the wait on the Event has returned; the response is read
\* from the entry request_id names now, and json.loads('') raises
ExecuteResume(c) ==
    /\ callers[c].pc = "waiting" /\ callers[c].event
    /\ UNCHANGED <<laneVars, applyVars, helloVars, scanVars>>
    /\ LET resp == pending[callers[c].id].response IN
       callers' = [callers EXCEPT ![c].result = resp,
                                  ![c].pc = IF resp = "" THEN "failed" ELSE "returned"]
    /\ UNCHANGED <<pending, dapiRes>>

\* lines 177-178: asyncio.TimeoutError, raised as WazuhClusterError(3021)
ExecuteTimeout(c) ==
    /\ callers[c].pc = "waiting" /\ ~callers[c].event /\ ~callers[c].wfc
    /\ UNCHANGED <<laneVars, applyVars, helloVars, scanVars>>
    /\ callers' = [callers EXCEPT ![c].pc = "timeout3021"]
    /\ UNCHANGED <<pending, dapiRes>>

\* process_dapi_res (command dapi_res)
ProcessDapiRes(id, payload) ==
    /\ UNCHANGED <<laneVars, applyVars, helloVars, scanVars>>
    /\ LET kind == DapiResKind(id)
           heard == [c \in CallerIds |->
                        IF callers[c].id = id /\ Outstanding(c)
                        THEN [callers[c] EXCEPT !.arrived = TRUE] ELSE callers[c]]
       IN
       /\ dapiRes' = [kind |-> kind, id |-> id, n |-> 1 - dapiRes.n,
                      payload |-> IF kind = "3032" THEN "" ELSE payload]
       /\ CASE kind = "ok" ->
                 LET c == pending[id].owner IN
                 /\ pending' = Resolve(id, payload)
                 /\ callers' = [heard EXCEPT ![c].event = TRUE,
                                             ![c].first = IF callers[c].event THEN @
                                                          ELSE payload]
            [] kind = "fwd" ->
                 \* asyncio.create_task(self.forward_dapi_response(data))
                 /\ callers' = heard
                 /\ UNCHANGED pending
            [] kind = "3032" ->
                 \* raise WazuhClusterError(3032, req_id)
                 /\ callers' = heard
                 /\ UNCHANGED pending

\* line 136: local_server.clients[dapi_client.decode()] finds the client,
\* or raises KeyError out of process_request
DapiErrKind(client) == IF client \in LocalClients THEN "err_fwd" ELSE "KeyError"

\* process_request(b'dapi_err', client + b' ' + error_msg), lines 134-137
ProcessDapiErr(client) ==
    /\ UNCHANGED <<laneVars, applyVars, helloVars, scanVars>>
    /\ dapiRes' = [kind |-> DapiErrKind(client), id |-> client, n |-> dapiRes.n,
                   payload |-> ""]
    /\ UNCHANGED <<pending, callers>>

NextDapi ==
    \/ \E id \in ReqIds, call \in Calls : Execute(id, call)
    \/ \E c \in CallerIds, ok \in BOOLEAN : ExecuteSent(c, ok)
    \/ \E c \in CallerIds : ExecuteResume(c)
    \/ \E c \in CallerIds : ExecuteTimeout(c)
    \/ \E id \in DeliveryIds, payload \in Payloads : ProcessDapiRes(id, payload)

InitDapi ==
    /\ pending = <<>> /\ callers = <<>> /\ dapiRes = NoRes

(***************************************************************************)
(* process_files_from_worker and its inner update_file.                    *)
(***************************************************************************)
\* update_file calls in a behaviour, and sub-files one bundle yields
MaxFiles == 2
MaxSubs == 2
\* Time is counted in ticks, Sub ticks to the second, so that st_mtime and the
\* '%f' part of file_time have a fraction that int() and timetuple() drop.
Sub == 2
MaxTime == 3
Times == 0..MaxTime

\* paths are sequences of components; os.path.basename is the last one
Basename(path) == path[Len(path)]
ClientKeys == <<"etc", "client.keys">>
PlainFile == <<"etc", "shared", "f.conf">>
InfoBundle == <<"queue", "cluster", "agent-info.merged">>
GroupsBundle == <<"queue", "cluster", "agent-groups.merged">>

\* the entries files_checksums may hold (name and data)
Descs ==
    {[name |-> ClientKeys, merged |-> FALSE, merge_type |-> "", key |-> "/etc/"],
     [name |-> ClientKeys, merged |-> TRUE, merge_type |-> "agent-info", key |-> "/etc/"],
     [name |-> InfoBundle, merged |-> TRUE, merge_type |-> "agent-info",
      key |-> "/queue/agent-info/"],
     [name |-> GroupsBundle, merged |-> TRUE, merge_type |-> "agent-groups",
      key |-> "/queue/agent-groups/"],
     [name |-> PlainFile, merged |-> FALSE, merge_type |-> "", key |-> "/etc/shared/"]}
Keys == {d.key : d \in Descs}
LockNames == {Basename(d.name) : d \in Descs}

\* Agents; a base name is the sequence of its parts between hyphens
Agent1 == [id |-> <<"001">>, name |-> <<"a1">>]
Agent2 == [id |-> <<"002">>, name |-> <<"a2">>]
Agents == {Agent1, Agent2}
\* base names unmerge_agent_info yields: <name>-<ip> for agent-info, <id> for groups
SubBases(type) ==
    IF type = "agent-info" THEN {a.name \o <<"ip">> : a \in Agents}
    ELSE {a.id : a \in Agents}
\* file_path of a sub-file: the directory of its merge type and its base name
SubPath(type, base) == <<"queue", type, base>>
SubPaths == {SubPath(ty, b) : ty \in {"agent-info"}, b \in SubBases("agent-info")}
              \cup {SubPath(ty, b) : ty \in {"agent-groups"}, b \in SubBases("agent-groups")}
FsPaths == {ClientKeys, PlainFile} \cup SubPaths

Absent == [exists |-> FALSE, mtime |-> 0, data |-> ""]
File(t, d) == [exists |-> TRUE, mtime |-> t, data |-> d]
NoOp == [op |-> "none", path |-> <<>>, before |-> Absent, time |-> 0, lock |-> "free"]
NoDesc == [name |-> <<>>, merged |-> FALSE, merge_type |-> "", key |-> ""]

\* line 466-467: re.match(r'(^.+)-(.+)$', basename): everything before the
\* last hyphen, or the whole base name when it has no hyphen
AgentNameOf(base) == IF Len(base) >= 2 THEN SubSeq(base, 1, Len(base) - 1) ELSE base

\* line 492: datetime.utcfromtimestamp(int(os.stat(...).st_mtime))
LocalMtime(st) == (st \div Sub) * Sub
\* line 501: timegm(mtime.timetuple()): the fraction of a second is dropped
MtimeEpoch(t) == (t \div Sub) * Sub
\* a comparison that also skips a sub-file as old as the local file
LocalIsNotOlder(st, t) == LocalMtime(st) >= t
\* line 494: local_mtime > mtime
LocalIsNewer(st, t) == LocalMtime(st) > t

\* an update_file without the test of line 450
NeverClientKeys(name) == FALSE
\* line 450: os.path.basename(name) == 'client.keys'
IsClientKeys(name) == Basename(name) = "client.keys"

\* n_errors[tag][key] = 1 if it is not there yet, else + 1
Count(n, tag, key) == [n EXCEPT ![tag][key] = @ + 1]
NoErrors == [tag \in {"errors", "warnings"} |-> [k \in Keys |-> 0]]

\* lines 537-538: fcntl.lockf(lock_file, fcntl.LOCK_UN); lock_file.close()
Release(lk, name) == [lk EXCEPT ![Basename(name)] = "free"]
\* line 449: fcntl.lockf(lock_file, fcntl.LOCK_EX)
Acquire(lk, name) == [lk EXCEPT ![Basename(name)] = "held"]
\* line 496: return inside the loop: lines 537-538 are not reached, the open
\* lock file is left to the interpreter
ReturnEarly(lk, name) == [lk EXCEPT ![Basename(name)] = "leaked"]

\* lines 94-97: the status records as __init__ builds them
NoTotals ==
    [total_agentinfo |-> 0, total_agentgroups |-> 0, agent_info |-> 0, extra_valid |-> 0,
     applied |-> [agent_info |-> 0, extra_valid |-> 0]]
\* lines 108-109: the counters to_dict reports for the two lanes
ReportedTotals ==
    [last_sync_agentinfo |-> totals.total_agentinfo,
     last_sync_agentgroups |-> totals.total_agentgroups]

\* lines 551-556: the roster is read once per batch; {} when reading fails
Snapshot(ok) ==
    IF ok THEN [names |-> {a.name : a \in roster}, ids |-> {a.id : a \in roster}]
    ELSE [names |-> {}, ids |-> {}]

\* process_files_from_worker up to its loop over files_checksums
BatchStart(ok) ==
    /\ apc = "idle" /\ filesLeft > 0
    /\ UNCHANGED <<laneVars, dapiVars, helloVars, scanVars>>
    /\ apc' = "loop"
    /\ snapshot' = Snapshot(ok)
    /\ nErrors' = NoErrors
    /\ lastOp' = [NoOp EXCEPT !.op = "start"]
    /\ trail' = <<>>
    /\ faulted' = ~ok
    /\ totals' = [totals EXCEPT !.applied = NoTotals.applied]
    /\ UNCHANGED <<fs, roster, lock, cur, filesLeft, subsLeft>>

\* update_file(name, data) up to the loop over the sub-files of a bundle, or to
\* its end for a plain file.  acq: open of the lock file and lockf succeed
\* ("ok") or one of them raises; io: chown / chmod / rename succeed; t: the
\* modification time of the extracted file.
UpdateFile(d, acq, io, t) ==
    /\ apc = "loop" /\ filesLeft > 0
    /\ UNCHANGED <<laneVars, dapiVars, helloVars, scanVars>>
    /\ filesLeft' = filesLeft - 1
    /\ cur' = d
    /\ trail' = <<>>
    /\ faulted' = (faulted \/ acq # "ok"
                           \/ (~IsClientKeys(d.name) /\ ~d.merged /\ ~io))
    /\ UNCHANGED <<roster, snapshot>>
    /\ LET op == [NoOp EXCEPT !.path = d.name,
                               !.before = IF d.name \in FsPaths THEN fs[d.name] ELSE Absent] IN
       CASE acq = "open_raises" ->
              \* line 447 is outside the try: the exception leaves update_file
              \* and the loop, and process_files_from_worker raises it again
              /\ apc' = "raised"
              /\ lastOp' = [op EXCEPT !.op = "open_raised"]
              /\ UNCHANGED <<fs, nErrors, totals, lock, subsLeft>>
         [] acq = "lockf_raises" ->
              /\ apc' = "loop"
              /\ nErrors' = Count(nErrors, "errors", d.key)
              /\ lock' = Release(lock, d.name)
              /\ lastOp' = [op EXCEPT !.op = "error"]
              /\ UNCHANGED <<fs, totals, subsLeft>>
         [] acq = "ok" /\ IsClientKeys(d.name) ->
              \* WazuhClusterError(3007), caught as a warning
              /\ apc' = "loop"
              /\ nErrors' = Count(nErrors, "warnings", d.key)
              /\ lock' = Release(Acquire(lock, d.name), d.name)
              /\ lastOp' = [op EXCEPT !.op = "reject", !.lock = "held"]
              /\ UNCHANGED <<fs, totals, subsLeft>>
         [] acq = "ok" /\ ~IsClientKeys(d.name) /\ d.merged ->
              /\ apc' = "unmerge"
              /\ lock' = Acquire(lock, d.name)
              /\ totals' = IF d.merge_type = "agent-info"
                            THEN [totals EXCEPT !.agent_info = Cardinality(snapshot.ids)]
                            ELSE [totals EXCEPT !.extra_valid = Cardinality(snapshot.ids)]
              /\ subsLeft' = MaxSubs
              /\ lastOp' = [op EXCEPT !.op = "unmerge", !.lock = "held"]
              /\ UNCHANGED <<fs, nErrors>>
         [] acq = "ok" /\ ~IsClientKeys(d.name) /\ ~d.merged ->
              /\ apc' = "loop"
              /\ lock' = Release(Acquire(lock, d.name), d.name)
              /\ UNCHANGED <<totals, subsLeft>>
              /\ IF io
                 THEN /\ fs' = [fs EXCEPT ![d.name] = File(t, "w")]
                      /\ lastOp' = [op EXCEPT !.op = "rename", !.time = t, !.lock = "held"]
                      /\ UNCHANGED nErrors
                 ELSE /\ nErrors' = Count(nErrors, "errors", d.key)
                      /\ lastOp' = [op EXCEPT !.op = "error", !.lock = "held"]
                      /\ UNCHANGED fs

\* an update_file without the roster tests
OwnerAlwaysKnown(type, base) == TRUE
\* the owner named by a sub-file is in the roster of the batch (lines 465-483)
OwnerKnown(type, base) ==
    IF type = "agent-info" THEN AgentNameOf(base) \in snapshot.names
    ELSE base \in snapshot.ids

\* One turn of the loop over unmerge_agent_info (lines 459-515): the sub-file
\* base with embedded time t.  fail: nothing raises ("none"), strptime raises
\* ("parse") or one of open / utime / chown / chmod / rename does ("write").
SubFile(base, t, fail) ==
    /\ apc = "unmerge" /\ subsLeft > 0
    /\ UNCHANGED <<laneVars, dapiVars, helloVars, scanVars>>
    /\ base \in SubBases(cur.merge_type)
    /\ subsLeft' = subsLeft - 1
    /\ LET target == fs[SubPath(cur.merge_type, base)] IN
       trail' = Append(trail, [base |-> base,
                               stale |-> target.exists /\ (target.mtime \div Sub) * Sub > t])
    /\ UNCHANGED <<roster, snapshot, cur, filesLeft>>
    /\ LET path == SubPath(cur.merge_type, base)
           op == [NoOp EXCEPT !.path = path, !.before = fs[path], !.time = t,
                              !.lock = lock[Basename(cur.name)]]
           counter == IF cur.merge_type = "agent-info" THEN "agent_info" ELSE "extra_valid"
       IN
       IF ~OwnerKnown(cur.merge_type, base)
       THEN \* warning counted, continue
            /\ nErrors' = Count(nErrors, "warnings", cur.key)
            /\ lastOp' = [op EXCEPT !.op = "skip_unknown"]
            /\ UNCHANGED <<apc, fs, totals, lock, faulted>>
       ELSE IF fail = "parse" \/ (fail = "write" /\ ~(fs[path].exists /\ LocalIsNewer(fs[path].mtime, t)))
       THEN \* inner except: the status total goes down, an error is counted
            /\ nErrors' = Count(nErrors, "errors", cur.key)
            /\ totals' = [totals EXCEPT ![counter] = @ - 1]
            /\ lastOp' = [op EXCEPT !.op = "error"]
            /\ faulted' = TRUE
            /\ UNCHANGED <<apc, fs, lock>>
       ELSE IF fs[path].exists /\ LocalIsNewer(fs[path].mtime, t)
       THEN \* line 496: return
            /\ apc' = "loop"
            /\ lock' = ReturnEarly(lock, cur.name)
            /\ lastOp' = [op EXCEPT !.op = "skip_old"]
            /\ UNCHANGED <<fs, nErrors, totals, faulted>>
       ELSE \* lines 498-505: written to .tmp, utime, chown, chmod, rename
            /\ fs' = [fs EXCEPT ![path] = File(MtimeEpoch(t), "w")]
            /\ lastOp' = [op EXCEPT !.op = "write"]
            /\ totals' = [totals EXCEPT !.applied[counter] = @ + 1]
            /\ UNCHANGED <<apc, nErrors, lock, faulted>>

\* unmerge_agent_info is exhausted (ok) or raises: the outer except counts an
\* error; either way lines 537-538 release the lock
UnmergeEnd(ok) ==
    /\ apc = "unmerge"
    /\ UNCHANGED <<laneVars, dapiVars, helloVars, scanVars>>
    /\ apc' = "loop"
    /\ lock' = Release(lock, cur.name)
    /\ nErrors' = IF ok THEN nErrors ELSE Count(nErrors, "errors", cur.key)
    /\ lastOp' = [NoOp EXCEPT !.op = IF ok THEN "unmerged" ELSE "error",
                              !.path = cur.name, !.lock = lock[Basename(cur.name)]]
    /\ faulted' = (faulted \/ ~ok)
    /\ UNCHANGED <<fs, roster, snapshot, totals, cur, filesLeft, subsLeft, trail>>

\* files_checksums is exhausted: shutil.rmtree (lines 562-566, ok or raising)
\* and the summary of n_errors
BatchEnd(ok) ==
    /\ apc = "loop"
    /\ UNCHANGED <<laneVars, dapiVars, helloVars, scanVars>>
    /\ apc' = IF ok THEN "returned" ELSE "raised"
    /\ UNCHANGED lastOp
    /\ faulted' = (faulted \/ ~ok)
    /\ UNCHANGED <<fs, roster, snapshot, nErrors, totals, lock, cur, filesLeft, subsLeft, trail>>

\* The interpreter finalises the lock file object update_file left open when
\* it returned early: closing it drops the lock.
FinalizeLockFile(b) ==
    /\ lock[b] = "leaked"
    /\ UNCHANGED <<laneVars, dapiVars, helloVars, scanVars>>
    /\ lock' = [lock EXCEPT ![b] = "free"]
    /\ UNCHANGED <<apc, fs, roster, snapshot, nErrors, totals, cur, lastOp, filesLeft, subsLeft,
                   trail, faulted>>

NextApply ==
    \/ \E ok \in BOOLEAN : BatchStart(ok)
    \/ \E d \in Descs, acq \in {"ok", "open_raises", "lockf_raises"},
          io \in BOOLEAN, t \in {1} : UpdateFile(d, acq, io, t)
    \/ \E base \in SubBases("agent-info") \cup SubBases("agent-groups"), t \in Times,
          fail \in {"none", "parse", "write"} : SubFile(base, t, fail)
    \/ \E ok \in BOOLEAN : UnmergeEnd(ok)
    \/ \E ok \in BOOLEAN : BatchEnd(ok)
    \/ \E b \in LockNames : FinalizeLockFile(b)

\* the master's own client.keys; the agent-info file of the first agent is
\* not there yet or was written by the master's own services, with a whole or
\* a fractional mtime
InitFiles ==
    {f \in [FsPaths -> {Absent} \cup {File(t, "l") : t \in {MaxTime - 1, MaxTime}}] :
        /\ f[ClientKeys] = File(MaxTime, "l")
        /\ \A p \in FsPaths \ {ClientKeys, SubPath("agent-info", Agent1.name \o <<"ip">>)} :
              f[p] = Absent}

\* the applier before process_files_from_worker is called, with the files f
\* and the agents r
InitApplyWith(f, r) ==
    /\ apc = "idle"
    /\ fs = f
    /\ roster = r
    /\ snapshot = [names |-> {}, ids |-> {}]
    /\ nErrors = NoErrors
    /\ totals = NoTotals
    /\ lock = [b \in LockNames |-> "free"]
    /\ cur = NoDesc
    /\ lastOp = NoOp
    /\ filesLeft = MaxFiles
    /\ subsLeft = 0
    /\ trail = <<>>
    /\ faulted = FALSE

\* any of the initial files, one or both agents registered
InitApply == \E f \in InitFiles, r \in {{Agent1}, Agents} : InitApplyWith(f, r)
\* where the applier is not looked at: no agent file yet, one agent
InitApplyIdle ==
    InitApplyWith([p \in FsPaths |-> IF p = ClientKeys THEN File(MaxTime, "l") ELSE Absent],
                  {Agent1})

(***************************************************************************)
(* hello: the handshake of a worker session.                               *)
(***************************************************************************)
\* self.server.configuration['name'] and metadata.__version__
ConfigName == "wazuh"
MasterVersion == "v3"
\* cluster names and versions a worker may announce
ClusterNames == {ConfigName, "other"}
Versions == {MasterVersion, "v4"}

NoHello == [reply |-> "", cluster_name |-> "", version |-> "", loggers |-> FALSE,
            registered |-> FALSE, worker_dir |-> FALSE, tasksAt |-> 0]

\* super().hello(name) of AbstractServerHandler: the session is entered in
\* the server's clients and the acknowledgement (b'ok', payload) is returned
BaseHello(h) == [h EXCEPT !.registered = TRUE]

\* a hello that tests the version before the cluster name
HelloReplyVersionFirst(cn, ver) ==
    IF ver # MasterVersion THEN "3031"
    ELSE IF cn # ConfigName THEN "3030"
    ELSE "ok"
\* lines 200-208: WazuhClusterError(3030), WazuhClusterError(3031) or cmd
HelloReply(cn, ver) ==
    IF cn # ConfigName THEN "3030"
    ELSE IF ver # MasterVersion THEN "3031"
    ELSE "ok"

\* hello, sent once by the worker of session s; cn and ver are the cluster
\* name and the version of its data.  tasksAt: receive tasks made before it.
Hello(s, cn, ver) ==
    /\ connected[s] /\ hs[s].reply = ""
    /\ UNCHANGED <<laneVars, dapiVars, applyVars, scanVars>>
    /\ LET h1 == [BaseHello(hs[s]) EXCEPT !.loggers = TRUE, !.version = ver,
                                           !.cluster_name = cn,
                                           !.tasksAt = Len(tasks)]
           r == HelloReply(h1.cluster_name, h1.version)
       IN hs' = [hs EXCEPT ![s] = [h1 EXCEPT !.reply = r, !.worker_dir = (r = "ok")]]

InitHello == hs = [s \in Sessions |-> NoHello]

(***************************************************************************)
(* Master.file_status_update: the integrity scanner.                       *)
(***************************************************************************)
\* the files get_files_status walks, and the checksums a file may have
ScanPaths == {"etc/client.keys", "etc/shared/f.conf"}
Sums == 0..2
\* integrity_control = {} of Master.__init__
EmptyTable == [p \in {} |-> 0]

\* cluster.get_files_status('master', node_name): a new table of all files
GetFilesStatus(files) == [p \in ScanPaths |-> files[p]]

\* a scanner that updates the table it has, one path per turn
TickResultInPlace(ok, old, new) ==
    IF ok /\ DOMAIN old # {}
    THEN [p \in DOMAIN new |-> IF p = "etc/client.keys" THEN new[p] ELSE old[p]]
    ELSE IF ok THEN new ELSE old
\* a scanner that drops the table when the computation fails
TickResultDrop(ok, old, new) == IF ok THEN new ELSE EmptyTable
\* lines 624-627: the assignment is made when get_files_status returns, and
\* skipped when it raises
TickResult(ok, old, new) == IF ok THEN new ELSE old

\* a file of the master changes
FileChange(p) ==
    /\ masterFiles' = [masterFiles EXCEPT ![p] = (@ + 1) % Cardinality(Sums)]
    /\ UNCHANGED <<laneVars, dapiVars, applyVars, helloVars>>
    /\ UNCHANGED <<integrity_control, scanPc, scanLast, lastWhole>>

\* One turn of the while True loop up to the await (lines 623-630); ok: the
\* call of get_files_status returns, or raises an Exception.
ScanTick(ok) ==
    /\ scanPc = "calc"
    /\ UNCHANGED <<laneVars, dapiVars, applyVars, helloVars>>
    /\ integrity_control' = TickResult(ok, integrity_control, GetFilesStatus(masterFiles))
    /\ scanLast' = IF ok THEN "ok" ELSE "failed"
    /\ lastWhole' = IF ok THEN GetFilesStatus(masterFiles) ELSE lastWhole
    /\ scanPc' = "sleep"
    /\ UNCHANGED masterFiles

\* asyncio.sleep(recalculate_integrity) returns
ScanWake ==
    /\ scanPc = "sleep"
    /\ UNCHANGED <<laneVars, dapiVars, applyVars, helloVars>>
    /\ scanPc' = "calc"
    /\ UNCHANGED <<masterFiles, integrity_control, scanLast, lastWhole>>

NextScan ==
    \/ \E p \in ScanPaths : FileChange(p)
    \/ \E ok \in BOOLEAN : ScanTick(ok)
    \/ ScanWake

InitScan ==
    /\ masterFiles = [p \in ScanPaths |-> 0]
    /\ integrity_control = EmptyTable
    /\ scanPc = "calc"
    /\ scanLast = ""
    /\ lastWhole = EmptyTable

Init == InitLane /\ InitDapi /\ InitApplyIdle /\ InitHello /\ InitScan
InitAnyFiles == InitLane /\ InitDapi /\ InitApply /\ InitHello /\ InitScan

\* The event loop runs the coroutine of task t up to its next await.
TaskStep(t) ==
    /\ t \in TaskIds
    /\ \/ TaskResume(t)
       \/ TaskTimeout(t)
       \/ \E r \in SendResults : SendStep(t, r)
       \/ TaskCancel(t)

\* The commands of the sessions in S and the steps of their lane tasks.
LaneNext(S) ==
    \/ \E s \in S, l \in Lanes : SetupSync(s, l)
    \/ \E s \in S, t \in TaskIds : EndReceiving(s, t)
    \/ \E s \in S, l \in Lanes, t \in TaskIds \cup {0} : SyncError(s, l, t)
    \/ \E s \in S : ConnectionLost(s)
    \/ \E t \in TaskIds : TaskResume(t)
    \/ \E t \in TaskIds : TaskTimeout(t)
    \/ \E t \in TaskIds, r \in SendResults : SendStep(t, r)
    \/ \E t \in TaskIds : TaskCancel(t)

Next == LaneNext(Sessions)

SpecDapi == Init /\ [][NextDapi]_vars

\* The lane commands of all the sessions and the steps of their lane
\* coroutines; the sessions being alike, the permission requests are those of
\* one of them.
NextSessions ==
    \/ \E tag \in Tags : GetPermission("w2", tag)
    \/ \E s \in Sessions, l \in Lanes : SetupSync(s, l)
    \/ \E s \in Sessions, t \in TaskIds : EndReceiving(s, t)
    \/ \E s \in Sessions, l \in Lanes, t \in TaskIds \cup {0} : SyncError(s, l, t)
    \/ \E t \in TaskIds : TaskResume(t)
    \/ \E t \in TaskIds : TaskTimeout(t)
    \/ \E t \in TaskIds, r \in SendResults : SendStep(t, r)
SpecSessions == Init /\ [][NextSessions]_vars

\* The same with the dapi_err deliveries of the workers.
NextDapiErr ==
    \/ \E client \in DeliveryIds : ProcessDapiErr(client)
    \/ NextDapi
SpecDapiErr == Init /\ [][NextDapiErr]_vars

\* One worker session: its permission requests among its other lane commands.
NextPerm ==
    \/ \E tag \in Tags : GetPermission("w1", tag)
    \/ LaneNext({"w1"})
SpecPerm == Init /\ [][NextPerm]_vars

\* One worker session: its hello and its lane commands, in any order.
NextHello ==
    \/ \E cn \in ClusterNames, ver \in Versions : Hello("w1", cn, ver)
    \/ LaneNext({"w1"})
SpecHello == Init /\ [][NextHello]_vars

\* The scanner beside one Integrity cycle of a worker session, from its setup
\* to its end, in any order of their steps.
NextDiff ==
    \/ NextScan
    \/ (tasks = <<>> /\ SetupSync("w1", "I"))
    \/ \E t \in TaskIds : EndReceiving("w1", t)
    \/ \E t \in TaskIds : TaskResume(t)
    \/ \E t \in TaskIds : TaskTimeout(t)
    \/ \E t \in TaskIds, r \in SendResults : SendStep(t, r)
SpecDiff == Init /\ [][NextDiff]_vars

\* The scanner; with fairness, the computation and the sleep both end.
SpecScan == Init /\ [][NextScan]_vars
FairScan == SpecScan /\ WF_vars(\E ok \in BOOLEAN : ScanTick(ok)) /\ WF_vars(ScanWake)

SpecApply == InitAnyFiles /\ [][NextApply]_vars

Spec == Init /\ [][Next]_vars

\* One worker session on its own, and the same with fairness: every await of
\* a lane coroutine ends (the wait on received_file has a timeout, a send
\* returns or raises, a cancellation is delivered).
NextSession == LaneNext({"w1"})
SpecSession == Init /\ [][NextSession]_vars
FairSession == SpecSession /\ \A t \in 1..MaxTasks : WF_vars(TaskStep(t))

(***************************************************************************)
(* Claims about the lanes.                                                 *)
(***************************************************************************)
IntegrityCycles == {t \in TaskIds : tasks[t].lane = "I"}
TrySends == {"sync_m_c", "file", "sync_m_c_e"}

\* C1 (as claimed): on every lane of every session, the receive tasks set up
\* after a permission check that answered True never overlap: at most one of
\* them is live at a time.
C1_SingleReceiveTaskPerLane ==
    \A s \in Sessions, l \in Lanes :
        Cardinality({t \in LaneTasks(s, l) : tasks[t].permitted}) <= 1

\* C2 (as claimed): a lane's flag is busy exactly when a receive task of that
\* lane is live (its done callback has not run).
C2_BusyExactlyWhileTaskLive ==
    \A s \in Sessions, l \in Lanes : (~free[s][l]) <=> (LaneTasks(s, l) # {})

\* C7 (as claimed): an Integrity cycle whose diff has no shared and no missing
\* path takes the "no KO files" path: no archive is compressed and nothing but
\* sync_m_c_ok is sent.
C7_NoKoWhenMasterFilesEmpty ==
    \A t \in IntegrityCycles :
        (tasks[t].resolved /\ ~tasks[t].koMaster) =>
            /\ tasks[t].archive = "none"
            /\ tasks[t].sent \subseteq {"sync_m_c_ok"}

\* C7 (amended): an Integrity cycle takes the "no KO files" path (no archive,
\* nothing but sync_m_c_ok sent, and sync_m_c_ok sent when the cycle returns)
\* exactly when all four classes of the diff are empty; a diff with only extra
\* or extra_valid paths takes the KO path and an archive is compressed.
C7_NoKoExactlyWhenAllClassesEmpty ==
    \A t \in IntegrityCycles :
        tasks[t].resolved =>
            IF tasks[t].koAny
            THEN /\ tasks[t].archive # "none"
                 /\ "sync_m_c_ok" \notin tasks[t].sent
                 /\ tasks[t].pc \in {"send_c", "send_file", "send_e", "send_r", "done"}
            ELSE /\ tasks[t].archive = "none"
                 /\ tasks[t].sent \subseteq {"sync_m_c_ok"}
                 /\ tasks[t].pc \in {"send_ok", "done"}
                 /\ (tasks[t].outcome = "returned" => tasks[t].sent = {"sync_m_c_ok"})

C7_Witness ==
    \E t \in IntegrityCycles :
        /\ tasks[t].resolved /\ ~tasks[t].koAny
        /\ tasks[t].outcome = "returned" /\ tasks[t].sent = {"sync_m_c_ok"}

\* C8 (as claimed): after an Integrity cycle in which one of the three sends of
\* the KO path raised, the worker was sent sync_m_c_r and was not sent
\* sync_m_c_e.
C8_ErrorNotifiedOnAnySendFailure ==
    \A t \in IntegrityCycles :
        (tasks[t].pc = "done" /\ tasks[t].failedAt \in TrySends) =>
            /\ tasks[t].notify # ""
            /\ "sync_m_c_e" \notin tasks[t].sent

\* C9: once compress_files has made the archive of an Integrity cycle, the
\* archive is gone when the cycle has ended, whatever the outcome.
C9_ArchiveDeletedAtCycleEnd ==
    \A t \in TaskIds : tasks[t].pc = "done" => tasks[t].archive # "exists"

\* a cycle whose send failed and whose error notification was cancelled or failed
C9_Witness ==
    \E t \in IntegrityCycles :
        /\ tasks[t].pc = "done" /\ tasks[t].archive = "deleted"
        /\ tasks[t].notify = "failed" /\ tasks[t].outcome = "cancelled"

\* C10: a lane that is busy is eventually free again, and no step of a lane
\* coroutine (return, timeout, failure, cancellation) takes the session down.
C10_BusyLaneEventuallyFree ==
    /\ \A s \in Sessions, l \in Lanes : (~free[s][l]) ~> free[s][l]
    /\ [][(\E t \in TaskIds : TaskStep(t)) => connected' = connected]_vars

\* a cycle that ended by the receive timeout, its lane free, its session up
C10_Witness ==
    \E t \in TaskIds :
        /\ tasks[t].outcome = "timeout"
        /\ free[tasks[t].sess][tasks[t].lane]
        /\ connected[tasks[t].sess]

\* C21: when the connection of a session is lost, cancel() has been called on
\* every live receive task of that session when the step ends, and no task,
\* flag or connection of any other session (and no flag at all) is changed.
C21_ConnectionLostCancelsOwnTasksOnly ==
    [][\A s \in Sessions :
          (connected[s] /\ ~connected'[s]) =>
              /\ \A t \in LiveTasks(s) : tasks'[t].cancelReq
              /\ \A t \in TaskIds : tasks[t].sess # s => tasks'[t] = tasks[t]
              /\ Len(tasks') = Len(tasks)
              /\ free' = free
              /\ \A o \in Sessions \ {s} : connected'[o] = connected[o]]_vars

\* one session is gone with a task of its own cancelled, while a task of the
\* other session is still waiting, not cancelled, its lane busy
C21_Witness ==
    \E t, u \in TaskIds :
        /\ ~connected[tasks[t].sess] /\ tasks[t].cancelReq
        /\ tasks[u].sess # tasks[t].sess /\ connected[tasks[u].sess]
        /\ Live(u) /\ ~tasks[u].cancelReq /\ ~free[tasks[u].sess][tasks[u].lane]

\* C22: a permission request is answered with the current value of the busy
\* flag of the lane its tag names ("True" when the lane is free), with
\* "False" for any other tag, and changes no flag, task or connection.
C22_PermissionReadsLaneFlag ==
    [][permReply'.n # permReply.n =>
          /\ permReply'.payload =
                 (IF permReply'.tag \in Lanes /\ free[permReply'.sess][permReply'.tag]
                  THEN "True" ELSE "False")
          /\ UNCHANGED <<free, connected, tasks>>]_vars

\* a free lane was granted while another lane of the session is busy
C22_Witness ==
    /\ permReply.tag = "A" /\ permReply.payload = "True"
    /\ free[permReply.sess]["A"] /\ ~free[permReply.sess]["I"]
    /\ \E t \in LiveTasks(permReply.sess) : tasks[t].lane = "I"

\* A setup-sync is the only step that adds a receive task.
SetupStep == Len(tasks') = Len(tasks) + 1
\* A sync-error-report is the only step that raises a flag, or stores an
\* exception in a task, while every coroutine stays where it is.
ErrorStep ==
    /\ Len(tasks') = Len(tasks)
    /\ connected' = connected
    /\ \A t \in TaskIds : tasks'[t].pc = tasks[t].pc
    /\ \/ free' # free
       \/ \E t \in TaskIds : tasks'[t] # tasks[t] /\ tasks'[t].filename = "exc"

\* C23: a setup-sync marks busy exactly the lane its tag names and a
\* sync-error-report marks free exactly the lane its tag names; each leaves
\* the flags and the tasks of the other lanes (and sessions) unchanged, and a
\* sync-error-report creates no receive task.
C23_LaneCommandsTouchOwnLane ==
    [][/\ SetupStep =>
            LET new == tasks'[Len(tasks')] IN
            /\ free' = [free EXCEPT ![new.sess][new.lane] = FALSE]
            /\ \A t \in TaskIds : tasks'[t] = tasks[t]
       /\ ErrorStep =>
            \E s \in Sessions, l \in Lanes :
                /\ free' = [free EXCEPT ![s][l] = TRUE]
                /\ \A t \in TaskIds :
                       (tasks[t].sess # s \/ tasks[t].lane # l) => tasks'[t] = tasks[t]]_vars

\* C23 (amended): as above, except that a sync-error-report stores its
\* exception in the one receive task of the session that its payload names,
\* whichever lane that task belongs to; every other task is unchanged.
C23_ErrorReportFailsNamedTask ==
    [][/\ SetupStep =>
            LET new == tasks'[Len(tasks')] IN
            /\ free' = [free EXCEPT ![new.sess][new.lane] = FALSE]
            /\ \A t \in TaskIds : tasks'[t] = tasks[t]
       /\ ErrorStep =>
            \E s \in Sessions, l \in Lanes :
                /\ free' = [free EXCEPT ![s][l] = TRUE]
                /\ \E named \in LiveTasks(s) \cup {0} :
                       \A t \in TaskIds : t # named => tasks'[t] = tasks[t]]_vars

\* an error report has freed one lane and failed its task while another lane
\* of the session is busy with an untouched task
C23_Witness ==
    \E t, u \in TaskIds :
        /\ tasks[t].sess = tasks[u].sess /\ tasks[t].lane # tasks[u].lane
        /\ Live(t) /\ tasks[t].filename = "exc" /\ free[tasks[t].sess][tasks[t].lane]
        /\ Live(u) /\ tasks[u].filename = "" /\ ~free[tasks[u].sess][tasks[u].lane]

\* The coroutine of task t stops waiting for its file.
LeavesWait(t) == tasks[t].pc = "wait" /\ tasks'[t].pc # "wait"

\* C24: a lane coroutine resolves (decompress, diff or apply) only in the step
\* in which it stops waiting, with its event signalled and the file name of
\* an end-of-transfer for its own task stored; a coroutine that stops waiting
\* by a timeout or with a captured failure ends at once without resolving
\* and leaves its lane free.
C24_ResolveOnlyAfterEndOfTransfer ==
    [][\A t \in TaskIds :
          /\ (tasks'[t].resolved /\ ~tasks[t].resolved) =>
                 /\ LeavesWait(t)
                 /\ tasks[t].event /\ tasks[t].filename = "file"
          /\ (LeavesWait(t) /\ (~tasks[t].event \/ tasks[t].filename = "exc")) =>
                 /\ ~tasks'[t].resolved
                 /\ tasks'[t].pc = "done"
                 /\ free'[tasks[t].sess][tasks[t].lane]]_vars

\* one cycle has resolved its file and goes on to answer the worker, another
\* one has ended by the timeout, and a third way out, the captured failure
C24_Witness ==
    \E t, u \in TaskIds :
        /\ tasks[t].resolved /\ tasks[t].pc \in SendPcs
        /\ tasks[u].pc = "done" /\ ~tasks[u].resolved
        /\ tasks[u].outcome = "timeout"

\* C25: in the KO path of an Integrity cycle the archive is streamed only
\* after the sync_m_c request has returned, the sync_m_c_e is sent only after
\* the stream has returned, with the task id sync_m_c returned and while the
\* archive that was streamed is still there; sync_m_c_e is never sent
\* before or without the stream.
C25_KoPathOrdered ==
    \A t \in IntegrityCycles :
        /\ tasks[t].pc = "send_file" => "sync_m_c" \in tasks[t].sent
        /\ "file" \in tasks[t].sent => "sync_m_c" \in tasks[t].sent
        /\ tasks[t].pc = "send_e" =>
               /\ "file" \in tasks[t].sent
               /\ tasks[t].tname = "bytes" /\ tasks[t].archive = "exists"
        /\ "sync_m_c_e" \in tasks[t].sent =>
               "file" \in tasks[t].sent /\ tasks[t].tname = "bytes"

\* a KO path that went through its three sends
C25_Witness ==
    \E t \in IntegrityCycles :
        /\ tasks[t].koAny /\ tasks[t].outcome = "returned"
        /\ {"sync_m_c", "file", "sync_m_c_e"} \subseteq tasks[t].sent

\* C26: every Integrity cycle that has ended, by whichever way out, has
\* written date_end_master.
C26_EndTimestampAlwaysRecorded ==
    \A t \in IntegrityCycles : tasks[t].pc = "done" => tasks[t].endRec

(***************************************************************************)
(* Claims about process_files_from_worker / update_file.                   *)
(***************************************************************************)
\* update_file is not running: before the batch, between two files, after it
OutsideUpdateFile == apc \in {"idle", "loop", "returned", "raised"}
WholeSeconds(x) == (x \div Sub) * Sub

\* C4 (as claimed): every write to a target is made with the exclusive lock of
\* the file's base name held, and on every exit of update_file (completion,
\* client.keys rejection, caught exception, early exit on an old sub-file) the
\* lock has been released.
C4_LockHeldForWritesReleasedOnExit ==
    /\ lastOp.op \in {"write", "rename"} => lastOp.lock = "held"
    /\ OutsideUpdateFile => \A b \in LockNames : lock[b] = "free"

\* C5: a descriptor whose base name is client.keys is rejected whatever its
\* merged flag: the master's client.keys is never written, the entry counts as
\* a warning (or as an error when taking the lock failed) and is never
\* unmerged.
C5_ClientKeysNeverWritten ==
    /\ fs[ClientKeys] = File(MaxTime, "l")
    /\ (cur # NoDesc /\ Basename(cur.name) = "client.keys") =>
          /\ apc # "unmerge"
          /\ lastOp.path = cur.name
          /\ lastOp.op \in {"reject", "error", "open_raised"}
          /\ lastOp.op = "reject" => nErrors["warnings"][cur.key] >= 1

\* a client.keys descriptor flagged as merged was rejected
C5_Witness ==
    /\ cur # NoDesc /\ Basename(cur.name) = "client.keys" /\ cur.merged
    /\ lastOp.op = "reject" /\ fs[ClientKeys] = File(MaxTime, "l")

InfoBase(a) == a.name \o <<"ip">>
InfoFileOf(a) == <<"queue", "agent-info", InfoBase(a)>>
BatchOver == apc \in {"returned", "raised"}

\* The batch of C18: one descriptor, the agent-info bundle, which yielded one
\* sub-file of the registered agent a1, not older than a1's file, and one of
\* the agent a2 that is not registered; no call made by the batch raised.
C18_Scenario ==
    /\ BatchOver /\ ~faulted
    /\ filesLeft = MaxFiles - 1
    /\ cur.name = <<"queue", "cluster", "agent-info.merged">>
    /\ cur.merged /\ cur.merge_type = "agent-info"
    /\ roster = {Agent1} /\ snapshot.names = {<<"a1">>}
    /\ Len(trail) = 2
    /\ \E i, j \in 1..2 :
          /\ trail[i].base = InfoBase(Agent1) /\ ~trail[i].stale
          /\ trail[j].base = InfoBase(Agent2)

\* C18: after the batch of the scenario, process_files_from_worker has
\* returned without raising, the file of the registered agent holds the
\* received content, the file of the unregistered agent does not exist, the
\* warning counter of '/queue/agent-info/' is 1 and no error is counted.
C18_MixedBundleApplied ==
    C18_Scenario =>
        /\ apc = "returned"
        /\ fs[InfoFileOf(Agent1)].exists /\ fs[InfoFileOf(Agent1)].data = "w"
        /\ ~fs[InfoFileOf(Agent2)].exists
        /\ nErrors["warnings"]["/queue/agent-info/"] = 1
        /\ \A k \in Keys : nErrors["errors"][k] = 0
        /\ \A k \in Keys \ {"/queue/agent-info/"} : nErrors["warnings"][k] = 0

\* the scenario with the entry of the unregistered agent first
C18_Witness ==
    /\ C18_Scenario /\ apc = "returned"
    /\ trail[1].base = InfoBase(Agent2)
    /\ fs[InfoFileOf(Agent1)].data = "w"

\* C19 (as claimed): a failure while applying one file or one sub-file, the
\* failure to open or to lock the file's lock file included, is counted in
\* n_errors under the file's cluster_item_key and does not abort the batch:
\* process_files_from_worker does not raise because of it.
C19_FileFailureContained ==
    /\ lastOp.op \in {"error", "open_raised"} => nErrors["errors"][cur.key] >= 1
    /\ lastOp.op = "reject" => nErrors["warnings"][cur.key] >= 1
    /\ lastOp.op = "open_raised" => apc # "raised"

(***************************************************************************)
(* Claims about the distributed-API registry.                              *)
(***************************************************************************)
\* C3 (as claimed): a PendingRequest is resolved at most once: a later dapi_res
\* for the same id does not replace the response, so a call of execute that
\* waited for its response and returned, returned the payload of the first
\* dapi_res delivered for it.
C3_CallerObservesFirstPayload ==
    \A c \in CallerIds :
        (callers[c].pc = "returned" /\ callers[c].cmd # "other") =>
            callers[c].result = callers[c].first

\* C13 (as claimed): a caller of execute raises the request timeout 3021 only
\* if it asked for a deadline (wait_for_complete false) and no dapi_res for its
\* request id arrived before the deadline; with wait_for_complete true it
\* never raises the timeout.
C13_TimeoutOnlyWithoutResponse ==
    \A c \in CallerIds :
        callers[c].pc = "timeout3021" => (~callers[c].wfc /\ ~callers[c].arrived)

\* C14 (as claimed): no two outstanding calls of execute share a request id.
C14_OutstandingIdsDistinct ==
    \A c1, c2 \in CallerIds :
        (c1 # c2 /\ Outstanding(c1) /\ Outstanding(c2)) => callers[c1].id # callers[c2].id

\* C15 (as claimed): pending_api_requests holds only the entries of calls that
\* are still waiting: once execute has returned or raised, its request id is
\* no longer in the registry.
C15_RegistryHoldsOnlyWaitingCalls ==
    \A id \in DOMAIN pending : Outstanding(pending[id].owner)

\* a dapi_res was processed in this step
DapiResStep == dapiRes'.n # dapiRes.n

\* C16: a dapi_res whose id is neither in pending_api_requests nor a local
\* client raises 3032, and it is the only one that does; the step writes no
\* response slot, sets no Event and leaves the registry as it was.
C16_UnmatchedIdRaises3032 ==
    [][DapiResStep =>
         /\ (dapiRes'.kind = "3032") <=>
                (dapiRes'.id \notin DOMAIN pending /\ dapiRes'.id \notin {"lc", "2"})
         /\ dapiRes'.kind = "3032" => (pending' = pending /\ callers' = callers)]_vars

\* 3032 was raised while a call was waiting for its response, which it still is
C16_Witness ==
    /\ dapiRes.kind = "3032"
    /\ \E c \in CallerIds : callers[c].pc = "waiting" /\ ~callers[c].event
                              /\ pending[callers[c].id].response = ""

\* C17: a dapi_res whose id is not in pending_api_requests but names a local
\* client is forwarded to that client and resolves nothing; a dapi_res whose id
\* is in pending_api_requests is resolved there (response written, Event of
\* the entry set) and not forwarded, also when a local client has that name.
C17_ForwardOnlyWhenNotPending ==
    [][DapiResStep =>
         LET id == dapiRes'.id IN
         IF id \in DOMAIN pending
         THEN /\ dapiRes'.kind = "ok"
              /\ pending'[id].response = dapiRes'.payload
              /\ callers'[pending[id].owner].event
         ELSE /\ id \in {"lc", "2"} => dapiRes'.kind = "fwd"
              /\ dapiRes'.kind = "fwd" => id \in {"lc", "2"}
              /\ pending' = pending /\ callers' = callers]_vars

\* a response carrying the name of a local client, which no entry of the
\* registry has as its id, was forwarded while a call was waiting
C17_Witness ==
    /\ dapiRes.kind = "fwd" /\ dapiRes.id = "2"
    /\ \E c \in CallerIds : callers[c].pc = "waiting" /\ ~callers[c].event

(***************************************************************************)
(* Claims about hello.                                                     *)
(***************************************************************************)
Answered == {s \in Sessions : hs[s].reply # ""}
Rejected == {s \in Sessions : hs[s].reply \in {"3030", "3031"}}

\* C11 (as claimed): hello raises 3030 whenever the announced cluster name
\* differs from the configured one, raises 3031 whenever the announced version
\* differs from the master's, and acknowledges only when both match.
C11_MismatchErrorPerField ==
    \A s \in Answered :
        /\ hs[s].cluster_name # "wazuh" => hs[s].reply = "3030"
        /\ hs[s].version # "v3" => hs[s].reply = "3031"
        /\ hs[s].reply = "ok" => (hs[s].cluster_name = "wazuh" /\ hs[s].version = "v3")

\* C11 (amended): hello raises 3030 whenever the cluster name differs, raises
\* 3031 whenever the cluster name matches and the version differs, and
\* acknowledges exactly when both match; when both differ the error is 3030.
C11_ClusterNameTestedFirst ==
    \A s \in Answered :
        /\ hs[s].cluster_name # "wazuh" => hs[s].reply = "3030"
        /\ (hs[s].cluster_name = "wazuh" /\ hs[s].version # "v3") => hs[s].reply = "3031"
        /\ (hs[s].cluster_name = "wazuh" /\ hs[s].version = "v3") =>
              (hs[s].reply = "ok" /\ hs[s].worker_dir)

\* a hello whose cluster name and version both differ was answered with 3030
C11_Witness ==
    \E s \in Answered :
        hs[s].cluster_name # "wazuh" /\ hs[s].version # "v3" /\ hs[s].reply = "3030"

\* C12 (as claimed): once hello has been rejected with 3030 or 3031, no
\* setup-sync command of that session is accepted: no receive task is created
\* after the rejection.
C12_NoSetupAfterRejectedHello ==
    \A s \in Rejected :
        \A t \in TaskIds : tasks[t].sess = s => t <= hs[s].tasksAt

(***************************************************************************)
(* Claims about the integrity scanner.                                     *)
\* C29: the table an Integrity cycle passes to compare_files is
\* integrity_control as it is at that moment, and integrity_control is at
\* every moment, as a whole, the initial empty table or the table one
\* get_files_status call has returned, whatever the order of scanner turns
\* and lane steps.
C29_DiffAgainstWholeTable ==
    /\ [](integrity_control \in {EmptyTable, lastWhole})
    /\ [][\A t \in IntegrityCycles :
              (tasks'[t].resolved /\ ~tasks[t].resolved) =>
                  /\ tasks'[t].table = integrity_control
                  /\ tasks'[t].table \in {EmptyTable, lastWhole}]_vars

\* a cycle has diffed against a computed table, and the scanner has replaced
\* the table since
C29_Witness ==
    \E t \in IntegrityCycles :
        /\ tasks[t].resolved /\ tasks[t].pc \in SendPcs
        /\ DOMAIN tasks[t].table = ScanPaths
        /\ DOMAIN integrity_control = ScanPaths
        /\ tasks[t].table # integrity_control

\* C30: a dapi_err that names no known local client raises nothing out of
\* process_request (it is logged and dropped).
C30_UnknownDapiErrDropped ==
    dapiRes.kind # "KeyError"

\* The step changes a flag of session s, changes a task of s, or gives s a
\* new task.
Touched(s) ==
    \/ free'[s] # free[s]
    \/ \E t \in 1..Len(tasks') :
          /\ tasks'[t].sess = s
          /\ t > Len(tasks) \/ tasks'[t] # tasks[t]

\* C31: a permission request changes no flag and no task of any session; a
\* setup-sync changes flags and tasks of its own session only; every other
\* step (end-of-transfer, sync-error-report, a step or the completion of a
\* lane coroutine) changes flags and tasks (with the end timestamp a task
\* records) of one session at most; a task never passes to another session.
C31_SessionsIsolated ==
    [][/\ permReply'.n # permReply.n => UNCHANGED <<free, tasks>>
       /\ SetupStep =>
              \A o \in Sessions \ {tasks'[Len(tasks')].sess} : ~Touched(o)
       /\ \A s, o \in Sessions : s # o => ~(Touched(s) /\ Touched(o))
       /\ \A t \in TaskIds : tasks'[t].sess = tasks[t].sess]_vars

\* one session has finished a cycle on a lane and was then granted that
\* lane, while the other session is busy on the same lane with a live task
C31_Witness ==
    \E t, u \in TaskIds :
        /\ tasks[t].sess # tasks[u].sess /\ tasks[t].lane = tasks[u].lane
        /\ Live(t) /\ ~free[tasks[t].sess][tasks[t].lane]
        /\ tasks[u].pc = "done" /\ free[tasks[u].sess][tasks[u].lane]
        /\ permReply.sess = tasks[u].sess /\ permReply.tag = tasks[u].lane
        /\ permReply.payload = "True"

\* C27: a sub-file skipped because its target is newer does not end the loop
\* over its bundle: update_file is still unmerging after the skip, so that the
\* sub-files after it are tested and written in their turn.
C27_OnlyStaleSubFileSkipped ==
    lastOp.op = "skip_old" => apc = "unmerge"

\* C28: when a batch has returned, the counter to_dict reports for each of the
\* two lanes equals the number of sub-files of that kind the batch has written.
C28_ReportedCounterCountsApplied ==
    apc = "returned" =>
        /\ ReportedTotals.last_sync_agentinfo = totals.applied.agent_info
        /\ ReportedTotals.last_sync_agentgroups = totals.applied.extra_valid

(***************************************************************************)
\* C20: the scanner computes again and again (it is infinitely often about
\* to compute and infinitely often asleep); a computation that succeeds
\* replaces integrity_control by the whole new table, one that fails leaves
\* integrity_control as it was, and either way the loop goes to its sleep.
C20_ScannerNeverStops ==
    /\ []<>(scanPc = "calc")
    /\ []<>(scanPc = "sleep")
    /\ [][scanPc = "calc" /\ scanPc' # scanPc =>
             /\ scanPc' = "sleep"
             /\ scanLast' \in {"ok", "failed"}
             /\ scanLast' = "ok" =>
                   integrity_control' = [p \in {"etc/client.keys", "etc/shared/f.conf"} |->
                                            masterFiles[p]]
             /\ scanLast' = "failed" => integrity_control' = integrity_control]_vars

\* a failed computation has kept a table computed earlier, which the files
\* no longer match
C20_Witness ==
    /\ scanLast = "failed" /\ scanPc = "sleep"
    /\ DOMAIN integrity_control # {}
    /\ \E p \in DOMAIN integrity_control : integrity_control[p] # masterFiles[p]

====
